---- MODULE Spec2Model ----
(***************************************************************************)
(* Model of the keep-tahoe-blue backend: the field extraction of           *)
(* backend/app/ocr.py (DataCardOCR.extract_field_counts,                   *)
(* DataCardOCR._find_item_count, DataCardOCR.process_image_ocr,            *)
(* process_image) and the request handlers of backend/app/main.py          *)
(* (KTBFormField.from_ocr_field, upload_images, get_schema / save_schema   *)
(* called in turn and concurrently, generate_csv).  Each part has its own  *)
(* specification; the variables of the other parts stay at rest in it.     *)
(*                                                                         *)
(* Python strings that the code inspects character by character are        *)
(* sequences of one-character strings; positions returned by find / rfind  *)
(* / re.search are 0-based as in Python.  Confidences are integers in      *)
(* 0..100 (hundredths), so 0.85 is 85 and 0.0 is 0.  Optional values are   *)
(* None == <<>> and Some(v) == <<v>>.                                      *)
(***************************************************************************)
EXTENDS Integers, Sequences, FiniteSets, TLC

VARIABLES
    ocr_results,        \* argument: the caller's fragment list
    schema,             \* argument: schema.categories
    pc,                 \* position in extract_field_counts
    all_field_names,    \* local of extract_field_counts
    field_to_category,  \* local of extract_field_counts
    sorted_results,     \* local of extract_field_counts
    category_results,   \* local of extract_field_counts, returned at the end
    fi,                 \* index of the next field of all_field_names
    calls,              \* the locals of each finished _find_item_count call
    form_result,        \* process_image: the OcrFormResult returned, if any
    raised,             \* process_image: an exception reached its handler
    ocr_field,          \* from_ocr_field: the OcrFieldResult argument
    form_field,         \* from_ocr_field: the KTBFormField returned, if any
    payload,            \* upload_images: the UploadPayload argument
    upc,                \* upload_images: position in the handler
    ui,                 \* upload_images: index of the next file of payload.files
    form_results,       \* upload_images: local list of KTBFormResult
    response,           \* upload_images: the HTTP response, if any
    schema_file,        \* SCHEMA_FILE: its parsed content, None while missing
    clock,              \* the last value datetime.now() gave
    client,             \* per request thread: position in get_schema / save_schema
    returned,           \* the most recently completed /form-schema request
    last_put,           \* what the most recently completed PUT returned
    n_requests,         \* number of /form-schema requests started
    csv_request,        \* generate_csv: the CsvGenerationRequest argument
    csv_output,         \* generate_csv: the CSV written, if any
    ocr_image,          \* process_image_ocr: the image argument
    tmp_file,           \* process_image_ocr: the file at tmp_path, None while missing
    opc,                \* process_image_ocr: position in the method
    result_iter,        \* process_image_ocr: what predict_iter has yet to yield
    read_results,       \* process_image_ocr: local list ocr_results
    ocr_data            \* process_image_ocr: the dict returned, if any

extractVars == <<ocr_results, schema, pc, all_field_names, field_to_category,
                 sorted_results, category_results, fi, calls>>
imageVars == <<form_result, raised>>

fieldVars == <<ocr_field, form_field>>

uploadVars == <<payload, upc, ui, form_results, response>>
storeVars == <<schema_file, clock, client, returned, last_put, n_requests>>
csvVars == <<csv_request, csv_output>>
ocrVars == <<ocr_image, tmp_file, opc, result_iter, read_results, ocr_data>>

vars == <<extractVars, imageVars, fieldVars, uploadVars, storeVars, csvVars,
          ocrVars>>

\* the variables each part of the program does not touch
afterCsvVars == <<ocrVars>>
afterStoreVars == <<csvVars, afterCsvVars>>
afterUploadVars == <<storeVars, afterStoreVars>>
afterFieldVars == <<uploadVars, afterUploadVars>>
afterImageVars == <<fieldVars, afterFieldVars>>
notExtractVars == <<imageVars, afterImageVars>>

(***************************************************************************)
(* Bounds of the model                                                     *)
(***************************************************************************)
MaxFrags == 3

(***************************************************************************)
(* Optional values                                                         *)
(***************************************************************************)
None == <<>>
Some(v) == <<v>>
IsNone(o) == o = <<>>
Get(o) == o[1]

Min(S) == CHOOSE m \in S : \A n \in S : m <= n
Max(S) == CHOOSE m \in S : \A n \in S : m >= n
Abs(n) == IF n < 0 THEN -n ELSE n

(***************************************************************************)
(* Python str operations                                                   *)
(***************************************************************************)
LowerOf ==
    ("A" :> "a") @@ ("B" :> "b") @@ ("C" :> "c") @@ ("D" :> "d") @@
    ("E" :> "e") @@ ("F" :> "f") @@ ("G" :> "g") @@ ("H" :> "h") @@
    ("I" :> "i") @@ ("J" :> "j") @@ ("K" :> "k") @@ ("L" :> "l") @@
    ("M" :> "m") @@ ("N" :> "n") @@ ("O" :> "o") @@ ("P" :> "p") @@
    ("Q" :> "q") @@ ("R" :> "r") @@ ("S" :> "s") @@ ("T" :> "t") @@
    ("U" :> "u") @@ ("V" :> "v") @@ ("W" :> "w") @@ ("X" :> "x") @@
    ("Y" :> "y") @@ ("Z" :> "z")

\* str.lower()
StrLower(s) ==
    [k \in 1..Len(s) |-> IF s[k] \in DOMAIN LowerOf THEN LowerOf[s[k]] ELSE s[k]]

IsSpace(c) == c = " "

DigitOf ==
    ("0" :> 0) @@ ("1" :> 1) @@ ("2" :> 2) @@ ("3" :> 3) @@ ("4" :> 4) @@
    ("5" :> 5) @@ ("6" :> 6) @@ ("7" :> 7) @@ ("8" :> 8) @@ ("9" :> 9)

IsDigit(c) == c \in DOMAIN DigitOf

\* w occurs in s at 0-based position p
OccursAt(s, w, p) ==
    /\ p + Len(w) <= Len(s)
    /\ \A k \in 1..Len(w) : s[p + k] = w[k]

\* str.find(w): lowest 0-based position, -1 when absent
Find(s, w) ==
    LET ps == {p \in 0..(Len(s) - Len(w)) : OccursAt(s, w, p)}
    IN  IF ps = {} THEN -1 ELSE Min(ps)

\* str.rfind(w): highest 0-based position, -1 when absent
RFind(s, w) ==
    LET ps == {p \in 0..(Len(s) - Len(w)) : OccursAt(s, w, p)}
    IN  IF ps = {} THEN -1 ELSE Max(ps)

\* w in s
Contains(s, w) == Find(s, w) >= 0

\* str.split(): the maximal runs of non-whitespace, in order
RECURSIVE SplitFrom(_, _)
SplitFrom(s, k) ==
    IF k > Len(s) THEN <<>>
    ELSE IF IsSpace(s[k]) THEN SplitFrom(s, k + 1)
    ELSE LET e == Max({j \in k..Len(s) : \A m \in k..j : ~IsSpace(s[m])})
         IN  <<SubSeq(s, k, e)>> \o SplitFrom(s, e + 1)

Split(s) == SplitFrom(s, 1)

\* int(digits)
RECURSIVE DecVal(_)
DecVal(d) ==
    IF d = <<>> THEN 0
    ELSE 10 * DecVal(SubSeq(d, 1, Len(d) - 1)) + DigitOf[d[Len(d)]]

\* first position (1-based) at or after k that holds no whitespace
RECURSIVE SkipSpace(_, _)
SkipSpace(s, k) ==
    IF k <= Len(s) /\ IsSpace(s[k]) THEN SkipSpace(s, k + 1) ELSE k

\* the pattern =\s*(\d+) matches starting at 1-based position p
PatternAt(s, p) ==
    /\ s[p] = "="
    /\ LET q == SkipSpace(s, p + 1)
       IN  q <= Len(s) /\ IsDigit(s[q])

\* re.search(r'=\s*(\d+)', s): the leftmost match; start() is 0-based and
\* group(1) is the greedy digit run
ReSearch(s) ==
    LET ps == {p \in 1..Len(s) : PatternAt(s, p)}
    IN  IF ps = {} THEN None
        ELSE LET p == Min(ps)
                 q == SkipSpace(s, p + 1)
                 e == Max({j \in q..Len(s) : \A m \in q..j : IsDigit(s[m])})
             IN  Some([start |-> p - 1, group1 |-> SubSeq(s, q, e)])

(***************************************************************************)
(* Python dict operations                                                  *)
(***************************************************************************)
EmptyDict == [k \in {} |-> k]

\* d[k] = v
DictSet(d, k, v) == (k :> v) @@ d

(***************************************************************************)
(* Thresholds written as literals in _find_item_count                      *)
(***************************************************************************)
KeyWordMinLen == 3      \* len(w) > 3
PrefixLen == 4          \* word[:4], len(word) >= 4
MaxDx == 400            \* dx < 400
MaxDy == 18             \* dy < 18
BlockMargin == 30       \* item_x + 30 < check_x < x - 30
BlockDy == 15           \* abs(check_y - item_y) < 15
BlockFloorTenths == 7   \* other_match_quality >= 0.7

(***************************************************************************)
(* _find_item_count                                                        *)
(***************************************************************************)
\* key_words: the words longer than 3 characters, else all the words
KeyWords(item_name) ==
    LET item_words == Split(StrLower(item_name))
        long == SelectSeq(item_words, LAMBDA w : Len(w) > KeyWordMinLen)
    IN  IF long = <<>> THEN item_words ELSE long

\* word in text_lower or (len(word) >= 4 and text_lower.find(word[:4]) >= 0)
WordHits(word, text_lower) ==
    \/ Contains(text_lower, word)
    \/ /\ Len(word) >= PrefixLen
       /\ Find(text_lower, SubSeq(word, 1, PrefixLen)) >= 0

MatchCount(key_words, text_lower) ==
    Cardinality({k \in 1..Len(key_words) : WordHits(key_words[k], text_lower)})

\* the in_order loop, from key word k on, with its break
RECURSIVE InOrderFrom(_, _, _, _)
InOrderFrom(key_words, text_lower, k, last_pos) ==
    IF k > Len(key_words) THEN TRUE
    ELSE LET word == key_words[k]
             pos0 == Find(text_lower, word)
             pos == IF pos0 < 0 /\ Len(word) >= PrefixLen
                    THEN Find(text_lower, SubSeq(word, 1, PrefixLen))
                    ELSE pos0
         IN  IF pos >= 0
             THEN IF pos <= last_pos THEN FALSE
                  ELSE InOrderFrom(key_words, text_lower, k + 1, pos)
             ELSE InOrderFrom(key_words, text_lower, k + 1, last_pos)

\* in_order never cleared
InOrder_never_cleared(key_words, text_lower) == TRUE

InOrder(key_words, text_lower) == InOrderFrom(key_words, text_lower, 1, -1)

\* match_quality, in units of 1 / (2 * len(key_words)): match_count /
\* len(key_words) is 2 * match_count units and the 0.5 bonus is
\* len(key_words) units.  With no key words the code's quality is 0.
MatchQuality(key_words, text_lower) ==
    LET match_count == MatchCount(key_words, text_lower)
        base == IF key_words # <<>> THEN 2 * match_count ELSE 0
    IN  IF InOrder(key_words, text_lower) /\ base > 0
        THEN base + Len(key_words)
        ELSE base

\* match_quality >= 0.5, for a quality q in the units above
ReachesFloor(q, key_words) == Len(key_words) > 0 /\ q >= Len(key_words)

\* the tuple appended to item_matches
MatchTuple(item, q) ==
    [text |-> item.text, x |-> item.box[1], y |-> item.box[2],
     conf |-> item.confidence, match_quality |-> q]

\* the first loop: the fragments that match the item, in ocr_items order
RECURSIVE ItemMatchesFrom(_, _, _)
ItemMatchesFrom(key_words, ocr_items, k) ==
    IF k > Len(ocr_items) THEN <<>>
    ELSE LET item == ocr_items[k]
             q == MatchQuality(key_words, StrLower(item.text))
             rest == ItemMatchesFrom(key_words, ocr_items, k + 1)
         IN  IF ReachesFloor(q, key_words)
             THEN <<MatchTuple(item, q)>> \o rest
             ELSE rest

\* item_matches.sort(key=lambda m: m[4], reverse=True): stable, so equal
\* qualities keep their order
InsertByQuality(s, m) ==
    LET n == Cardinality({k \in 1..Len(s) : s[k].match_quality >= m.match_quality})
    IN  SubSeq(s, 1, n) \o <<m>> \o SubSeq(s, n + 1, Len(s))

RECURSIVE SortByQuality(_)
SortByQuality(s) ==
    IF s = <<>> THEN <<>>
    ELSE InsertByQuality(SortByQuality(SubSeq(s, 1, Len(s) - 1)), s[Len(s)])

\* last_keyword_pos: the highest rfind of a key word, -1 when none occurs
LastKeywordPos(item_text_lower, key_words) ==
    Max({-1} \cup {RFind(item_text_lower, key_words[k]) : k \in 1..Len(key_words)})

\* variant: the comparison inverted
AfterKeywords_inverted(count_pos, last_keyword_pos) == count_pos < last_keyword_pos

\* count_pos > last_keyword_pos
AfterKeywords(count_pos, last_keyword_pos) == count_pos > last_keyword_pos

\* FIRST: the =NUMBER embedded in the anchor's own text, None when the
\* code falls through to the spatial search
EmbeddedCount(item_text, key_words) ==
    LET embedded_match == ReSearch(item_text)
    IN  IF IsNone(embedded_match) THEN None
        ELSE IF AfterKeywords(Get(embedded_match).start,
                              LastKeywordPos(StrLower(item_text), key_words))
             THEN Some(DecVal(Get(embedded_match).group1))
             ELSE None

\* variant: the horizontal limit inclusive
OnSameLine_inclusive(dx, dy) == dx > 0 /\ dx <= MaxDx /\ dy < MaxDy

\* dx > 0 and dx < 400 and dy < 18
OnSameLine(dx, dy) == dx > 0 /\ dx < MaxDx /\ dy < MaxDy

\* other_words of the blocking check
OtherWords(other_item) ==
    LET other_lower == StrLower(other_item)
        long == SelectSeq(Split(other_lower), LAMBDA w : Len(w) > KeyWordMinLen)
    IN  IF long = <<>> THEN Split(other_lower) ELSE long

\* variant: every fragment is taken for the other item's label
OtherItemPresent_unchecked(other_words, check_text_lower) == TRUE

\* other_match_quality >= 0.7
OtherItemPresent(other_words, check_text_lower) ==
    LET other_match_count ==
            Cardinality({k \in 1..Len(other_words) :
                             Contains(check_text_lower, other_words[k])})
    IN  /\ Len(other_words) > 0
        /\ 10 * other_match_count >= BlockFloorTenths * Len(other_words)

\* variant: the label's x and the candidate's x exchanged
IsBetween_swapped(item_x, item_y, check_x, check_y, x) ==
    /\ x + BlockMargin < check_x
    /\ check_x < item_x - BlockMargin
    /\ Abs(check_y - item_y) < BlockDy

\* item_x + 30 < check_x < x - 30 and abs(check_y - item_y) < 15
IsBetween(item_x, item_y, check_x, check_y, x) ==
    /\ item_x + BlockMargin < check_x
    /\ check_x < x - BlockMargin
    /\ Abs(check_y - item_y) < BlockDy

\* variant: only the items declared after item_name are looked for
Blocked_later_only(item_name, item_x, item_y, x, ocr_items, all_items) ==
    \E o \in 1..Len(all_items) :
        /\ all_items[o] # item_name
        /\ \E j \in 1..(o - 1) : all_items[j] = item_name
        /\ \E c \in 1..Len(ocr_items) :
              /\ OtherItemPresent(OtherWords(all_items[o]),
                                  StrLower(ocr_items[c].text))
              /\ IsBetween(item_x, item_y,
                           ocr_items[c].box[1], ocr_items[c].box[2], x)

\* blocked: the two nested loops with their breaks
Blocked(item_name, item_x, item_y, x, ocr_items, all_items) ==
    \E o \in 1..Len(all_items) :
        /\ all_items[o] # item_name
        /\ \E c \in 1..Len(ocr_items) :
              /\ OtherItemPresent(OtherWords(all_items[o]),
                                  StrLower(ocr_items[c].text))
              /\ IsBetween(item_x, item_y,
                           ocr_items[c].box[1], ocr_items[c].box[2], x)

\* distance < best_distance, best_distance starting at float('inf')
Nearer(distance, best) == IsNone(best) \/ distance < Get(best).distance

\* SECOND: the loop over ocr_items from index k on; best is None or
\* Some([count, confidence, distance, item])
RECURSIVE ScanCounts(_, _, _, _, _, _, _)
ScanCounts(ocr_items, k, best, item_name, item_x, item_y, all_items) ==
    IF k > Len(ocr_items) THEN best
    ELSE LET item == ocr_items[k]
             x == item.box[1]
             y == item.box[2]
             match == ReSearch(item.text)
             dx == x - item_x
             dy == Abs(y - item_y)
             next ==
                 IF /\ ~IsNone(match)
                    /\ OnSameLine(dx, dy)
                    /\ ~Blocked(item_name, item_x, item_y, x, ocr_items, all_items)
                    /\ Nearer(dx, best)
                 THEN Some([count |-> DecVal(Get(match).group1),
                            confidence |-> item.confidence,
                            distance |-> dx,
                            item |-> item])
                 ELSE best
         IN  ScanCounts(ocr_items, k + 1, next, item_name, item_x, item_y, all_items)

\* _find_item_count: count and confidence are the returned tuple; path,
\* anchor (item_matches[0]) and winner (the fragment behind best_count)
\* record which return statement was taken and the locals it used
find_item_count(item_name, ocr_items, all_items) ==
    LET key_words == KeyWords(item_name)
        item_matches == SortByQuality(ItemMatchesFrom(key_words, ocr_items, 1))
    IN  IF item_matches = <<>>
        THEN [count |-> 0, confidence |-> 0, path |-> "no_match",
              anchor |-> None, winner |-> None]
        ELSE LET m == item_matches[1]
                 embedded == EmbeddedCount(m.text, key_words)
             IN  IF ~IsNone(embedded)
                 THEN [count |-> Get(embedded), confidence |-> m.conf,
                       path |-> "embedded", anchor |-> Some(m), winner |-> None]
                 ELSE LET best == ScanCounts(ocr_items, 1, None, item_name,
                                             m.x, m.y, all_items)
                      IN  IF ~IsNone(best)
                          THEN [count |-> Get(best).count,
                                confidence |-> Get(best).confidence,
                                path |-> "linked", anchor |-> Some(m),
                                winner |-> Some(Get(best).item)]
                          ELSE [count |-> 0, confidence |-> 0,
                                path |-> "not_found", anchor |-> Some(m),
                                winner |-> None]

(***************************************************************************)
(* Inputs: field names and fragment texts, as character sequences          *)
(***************************************************************************)
\* "Paper cups"
TxtPaperCups ==
    <<"P", "a", "p", "e", "r", " ", "c", "u", "p", "s">>

\* "Paper straws"
TxtPaperStraws ==
    <<"P", "a", "p", "e", "r", " ", "s", "t", "r", "a", "w", "s">>

\* "Cigarette butts"
TxtCigaretteButts ==
    <<"C", "i", "g", "a", "r", "e", "t", "t", "e", " ", "b", "u", "t", "t", "s">>

\* "Plastic bottles"
TxtPlasticBottles ==
    <<"P", "l", "a", "s", "t", "i", "c", " ", "b", "o", "t", "t", "l", "e", "s">>

\* "cans"
TxtCans ==
    <<"c", "a", "n", "s">>

\* "=5"
TxtEq5 ==
    <<"=", "5">>

\* "=12"
TxtEq12 ==
    <<"=", "1", "2">>

\* "=0"
TxtEq0 ==
    <<"=", "0">>

\* "=7"
TxtEq7 ==
    <<"=", "7">>

\* "Plastic bottles =8"
TxtPlasticBottlesSp8 ==
    <<"P", "l", "a", "s", "t", "i", "c", " ", "b", "o", "t", "t", "l", "e", "s", " ", "=", "8">>

\* "=3 Plastic bottles"
TxtStrayThenLabel ==
    <<"=", "3", " ", "P", "l", "a", "s", "t", "i", "c", " ", "b", "o", "t", "t", "l", "e", "s">>

\* "=3 Plasti bottle"
TxtStrayThenGarbled ==
    <<"=", "3", " ", "P", "l", "a", "s", "t", "i", " ", "b", "o", "t", "t", "l", "e">>

\* "=3 Plastic bottles =8"
TxtStrayLabelCount ==
    <<"=", "3", " ", "P", "l", "a", "s", "t", "i", "c", " ", "b", "o", "t", "t", "l", "e", "s", " ", "=", "8">>

\* "bottles plastic"
TxtBottlesPlastic ==
    <<"b", "o", "t", "t", "l", "e", "s", " ", "p", "l", "a", "s", "t", "i", "c">>

\* "Plastic bottles=0"
TxtPlasticBottlesEq0 ==
    <<"P", "l", "a", "s", "t", "i", "c", " ", "b", "o", "t", "t", "l", "e", "s", "=", "0">>

\* "Plastic bottles=7": the field name immediately followed by "=7"
TxtPlasticBottlesEq7 == TxtPlasticBottles \o TxtEq7

\* one OCR fragment: {'text', 'confidence', 'box': [x_min, y_min, x_max, y_max]}
Frag(text, confidence, x_min, y_min) ==
    [text |-> text, confidence |-> confidence,
     box |-> <<x_min, y_min, x_min + 10 * Len(text), y_min + 12>>]

\* CategorySchemaInput(name, fields=[FieldSchemaInput(name), ...])
Category(name, field_names) ==
    [name |-> name,
     fields |-> [k \in 1..Len(field_names) |-> [name |-> field_names[k]]]]

\* Two labels on one line and counts to their right
PaperFamily ==
    [schema |-> <<Category("Paper", <<TxtPaperCups, TxtPaperStraws>>)>>,
     pool |-> {Frag(TxtPaperCups, 90, 0, 0),
               Frag(TxtPaperStraws, 90, 40, 0),
               Frag(TxtPaperStraws, 90, 40, 15),
               Frag(TxtEq5, 85, 50, 0),
               Frag(TxtEq7, 80, 70, 0),
               Frag(TxtEq5, 85, 100, 0)}]

\* One label and counts around the distance thresholds
ButtsFamily ==
    [schema |-> <<Category("Smoking", <<TxtCigaretteButts>>)>>,
     pool |-> {Frag(TxtCigaretteButts, 90, 10, 20),
               Frag(TxtEq12, 85, 30, 20),
               Frag(TxtEq12, 85, 30, 37),
               Frag(TxtEq12, 85, 30, 38),
               Frag(TxtEq12, 85, 30, 2),
               Frag(TxtEq12, 85, 10, 20),
               Frag(TxtEq12, 85, 0, 20),
               Frag(TxtEq12, 85, 409, 20),
               Frag(TxtEq12, 85, 410, 20),
               Frag(TxtEq12, 85, 411, 20),
               Frag(TxtEq0, 0, 30, 20)}]

\* Labels that carry their count in the same fragment
BottlesFamily ==
    [schema |-> <<Category("Plastic", <<TxtPlasticBottles>>)>>,
     pool |-> {Frag(TxtPlasticBottlesSp8, 92, 0, 10),
               Frag(TxtPlasticBottles, 90, 0, 20),
               Frag(TxtEq5, 85, 20, 20),
               Frag(TxtStrayThenLabel, 90, 0, 30),
               Frag(TxtPlasticBottlesEq7, 88, 0, 40),
               Frag(TxtStrayThenGarbled, 90, 0, 80),
               Frag(TxtStrayLabelCount, 90, 0, 100),
               Frag(TxtPlasticBottlesEq0, 0, 0, 120),
               Frag(TxtBottlesPlastic, 90, 0, 0)}]

\* "Plastic"
TxtPlastic == <<"P", "l", "a", "s", "t", "i", "c">>

\* "Plastic grocery bags"
TxtPlasticGroceryBags ==
    <<"P", "l", "a", "s", "t", "i", "c", " ", "g", "r", "o", "c", "e", "r", "y", " ", "b", "a", "g", "s">>

\* A field of three key words beside a field sharing one of them
BagsFamily ==
    [schema |-> <<Category("Plastic", <<TxtPlasticGroceryBags, TxtPlasticBottles>>)>>,
     pool   |-> {Frag(TxtPlastic, 90, 0, 0),
                 Frag(TxtPlasticBottles, 90, 0, 20),
                 Frag(TxtEq5, 85, 20, 20),
                 Frag(TxtPlasticGroceryBags, 90, 0, 40)}]

\* Schemas of several categories
CansPool ==
    {Frag(TxtCans, 90, 0, 0), Frag(TxtEq5, 85, 20, 0), Frag(TxtPaperCups, 90, 0, 40)}

Schemas ==
    {<<Category("Metal", <<TxtCans>>), Category("Paper", <<TxtPaperCups>>)>>,
     <<Category("Metal", <<TxtCans>>), Category("Other", <<TxtCans>>)>>,
     <<Category("Metal", <<>>)>>,
     <<>>}

Families ==
    {PaperFamily, ButtsFamily, BottlesFamily, BagsFamily}
        \cup {[schema |-> sc, pool |-> CansPool] : sc \in Schemas}

SeqsUpTo(S, n) == UNION {[1..k -> S] : k \in 0..n}

(***************************************************************************)
(* extract_field_counts                                                    *)
(***************************************************************************)
\* the (field.name, category.name) pairs in the order of the nested loops
RECURSIVE FieldPairs(_)
FieldPairs(categories) ==
    IF categories = <<>> THEN <<>>
    ELSE LET category == categories[1]
         IN  [k \in 1..Len(category.fields) |->
                 [field |-> category.fields[k].name, category |-> category.name]]
             \o FieldPairs(Tail(categories))

\* field_to_category after the loops: a later pair overwrites an earlier one
RECURSIVE FieldToCategory(_)
FieldToCategory(pairs) ==
    IF pairs = <<>> THEN EmptyDict
    ELSE DictSet(FieldToCategory(SubSeq(pairs, 1, Len(pairs) - 1)),
                 pairs[Len(pairs)].field, pairs[Len(pairs)].category)

\* variant: no fragment is ever moved in front of another
PosKeyLE_any(a, b) == TRUE

\* key=lambda x: (x['box'][1], x['box'][0])
PosKeyLE(a, b) ==
    \/ a.box[2] < b.box[2]
    \/ a.box[2] = b.box[2] /\ a.box[1] <= b.box[1]

\* variant: every fragment is put behind the ones already placed
InsertByPos_append(s, e) == s \o <<e>>

InsertByPos(s, e) ==
    LET n == Cardinality({k \in 1..Len(s) : PosKeyLE(s[k], e)})
    IN  SubSeq(s, 1, n) \o <<e>> \o SubSeq(s, n + 1, Len(s))

\* sorted(ocr_results, key=...): stable
RECURSIVE Sorted(_)
Sorted(s) ==
    IF s = <<>> THEN <<>>
    ELSE InsertByPos(Sorted(SubSeq(s, 1, Len(s) - 1)), s[Len(s)])

\* variant: a zero count is taken as found
IsFound_nonneg(count, confidence) == count >= 0 \/ confidence > 0

\* count > 0 or confidence > 0
IsFound(count, confidence) == count > 0 \/ confidence > 0

\* OcrFieldResult(value=..., confidence=...)
OcrFieldResult(value, confidence) == [value |-> value, confidence |-> confidence]

\* variant: the returned tuple is stored without the found test
StoredResult_always(count, confidence) ==
    OcrFieldResult(Some(count), Some(confidence))

\* the OcrFieldResult stored for a call's return value
StoredResult(count, confidence) ==
    IF IsFound(count, confidence)
    THEN OcrFieldResult(Some(count), Some(confidence))
    ELSE OcrFieldResult(None, None)

\* nothing of process_image has happened
ImageIdle == form_result = None /\ raised = FALSE

\* nothing of from_ocr_field has happened
FieldIdle == ocr_field = OcrFieldResult(None, None) /\ form_field = None

\* the variables of the other parts of the program at rest
\* nothing of upload_images has happened
UploadIdle ==
    /\ payload = [files |-> <<>>, metadata_count |-> 0]
    /\ upc = "idle"
    /\ ui = 1
    /\ form_results = <<>>
    /\ response = None

\* the request threads of /form-schema
Clients == {1, 2}

\* no /form-schema request has been made and SCHEMA_FILE does not exist
StoreIdle ==
    /\ schema_file = None
    /\ clock = 0
    /\ client = [c \in Clients |-> [pc |-> "idle", op |-> "none", arg |-> <<>>,
                                     created_default |-> FALSE]]
    /\ returned = None
    /\ last_put = None
    /\ n_requests = 0

\* nothing of generate_csv has happened
CsvIdle ==
    /\ csv_request = [metadata |-> <<>>, cleanup_data |-> <<>>]
    /\ csv_output = None

\* process_image_ocr is not running and has left no file
OcrIdle ==
    /\ ocr_image = [saves_as_jpeg |-> TRUE]
    /\ tmp_file = None
    /\ opc = "idle"
    /\ result_iter = <<>>
    /\ read_results = <<>>
    /\ ocr_data = None

AfterCsvIdle == OcrIdle
AfterStoreIdle == CsvIdle /\ AfterCsvIdle
AfterUploadIdle == StoreIdle /\ AfterStoreIdle
AfterFieldIdle == UploadIdle /\ AfterUploadIdle
AfterImageIdle == FieldIdle /\ AfterFieldIdle
NotExtractIdle == ImageIdle /\ AfterImageIdle

\* extract_field_counts is not running
ExtractIdle ==
    /\ ocr_results = <<>>
    /\ schema = <<>>
    /\ pc = "idle"
    /\ all_field_names = <<>>
    /\ field_to_category = EmptyDict
    /\ sorted_results = <<>>
    /\ category_results = EmptyDict
    /\ fi = 1
    /\ calls = <<>>

Init ==
    /\ \E fam \in Families :
          /\ schema = fam.schema
          /\ ocr_results \in SeqsUpTo(fam.pool, MaxFrags)
    /\ pc = "start"
    /\ all_field_names = <<>>
    /\ field_to_category = EmptyDict
    /\ sorted_results = <<>>
    /\ category_results = EmptyDict
    /\ fi = 1
    /\ calls = <<>>
    /\ NotExtractIdle

\* lines 174-189: the field tables, the sort, the empty category dicts
Begin ==
    /\ pc = "start"
    /\ LET pairs == FieldPairs(schema)
       IN  /\ all_field_names' = [k \in 1..Len(pairs) |-> pairs[k].field]
           /\ field_to_category' = FieldToCategory(pairs)
    /\ sorted_results' = Sorted(ocr_results)
    /\ category_results' =
           [c \in {schema[k].name : k \in 1..Len(schema)} |-> EmptyDict]
    /\ fi' = 1
    /\ pc' = "loop"
    /\ UNCHANGED <<ocr_results, schema, calls>>
    /\ UNCHANGED notExtractVars

\* lines 192-212: one iteration of the loop over all_field_names
ResolveField ==
    /\ pc = "loop"
    /\ fi <= Len(all_field_names)
    /\ LET field_name == all_field_names[fi]
           r == find_item_count(field_name, sorted_results, all_field_names)
           category_name == field_to_category[field_name]
       IN  /\ category_results' =
                  DictSet(category_results, category_name,
                          DictSet(category_results[category_name], field_name,
                                  StoredResult(r.count, r.confidence)))
           /\ calls' = Append(calls,
                              [item_name |-> field_name,
                               category_name |-> category_name,
                               count |-> r.count,
                               confidence |-> r.confidence,
                               path |-> r.path,
                               anchor |-> r.anchor,
                               winner |-> r.winner])
    /\ fi' = fi + 1
    /\ UNCHANGED <<ocr_results, schema, pc, all_field_names, field_to_category,
                   sorted_results>>
    /\ UNCHANGED notExtractVars

\* line 214: return category_results
Return ==
    /\ pc = "loop"
    /\ fi > Len(all_field_names)
    /\ pc' = "done"
    /\ UNCHANGED <<ocr_results, schema, all_field_names, field_to_category,
                   sorted_results, category_results, fi, calls>>
    /\ UNCHANGED notExtractVars

Next == Begin \/ ResolveField \/ Return

Spec == Init /\ [][Next]_vars

(***************************************************************************)
(* Properties                                                              *)
(***************************************************************************)
\* the result stored for the k-th finished call
Stored(k) == category_results[calls[k].category_name][calls[k].item_name]

\* the field names a schema category declares
DeclaredFields(category) ==
    {category.fields[j].name : j \in 1..Len(category.fields)}

\* C1: when extract_field_counts returns, the mapping holds, for each schema
\* category, exactly the field names the schema declares for that category:
\* none missing, none extra.
C1_ExactlyDeclaredFields ==
    pc = "done" =>
        \A k \in 1..Len(schema) :
            /\ schema[k].name \in DOMAIN category_results
            /\ DOMAIN category_results[schema[k].name] = DeclaredFields(schema[k])

\* the OcrFieldResult (value, confidence) with both present
Both(value, confidence) == OcrFieldResult(Some(value), Some(confidence))

\* the OcrFieldResult (None, None)
Neither == OcrFieldResult(None, None)

\* C2 as claimed: a field whose label was found but for which neither the
\* embedded check nor the spatial search gave a count is stored as the
\* sentinel (0, 0.0), distinct from (None, None).
C2_SentinelStored ==
    \A k \in 1..Len(calls) :
        calls[k].path = "not_found" => Stored(k) = Both(0, 0)

\* C2 amended: a field whose label was found but for which no count was
\* found is stored as (None, None), the same result as a field with no
\* label match; (0, 0.0) is only the return value of _find_item_count.
C2_NotFoundStoredAsNone ==
    \A k \in 1..Len(calls) :
        calls[k].path \in {"not_found", "no_match"} =>
            /\ calls[k].count = 0 /\ calls[k].confidence = 0
            /\ Stored(k) = Neither

C2_Witness ==
    \E k \in 1..Len(calls) :
        /\ calls[k].path = "not_found"
        /\ ~IsNone(calls[k].anchor)
        /\ Stored(k) = Neither

\* no fragment of the caller's list reaches the 0.5 floor for the field
NoLabelFragment(field_name) ==
    \A j \in 1..Len(ocr_results) :
        ~ReachesFloor(MatchQuality(KeyWords(field_name),
                                   StrLower(ocr_results[j].text)),
                      KeyWords(field_name))

\* C3: a field for which no fragment reaches the 0.5 floor is stored as
\* (None, None); with an empty fragment list the call returns with every
\* field of all_field_names stored as (None, None).
C3_NoLabelGivesNone ==
    /\ \A k \in 1..Len(calls) :
          NoLabelFragment(calls[k].item_name) => Stored(k) = Neither
    /\ (pc = "done" /\ ocr_results = <<>>) =>
          /\ Len(calls) = Len(all_field_names)
          /\ \A k \in 1..Len(all_field_names) :
                category_results[field_to_category[all_field_names[k]]]
                                [all_field_names[k]] = Neither

C3_Witness ==
    /\ pc = "done"
    /\ ocr_results # <<>>
    /\ \E k \in 1..Len(calls) :
          NoLabelFragment(calls[k].item_name) /\ Stored(k) = Neither

\* C4: for every stored result, value is None iff confidence is None iff no
\* count was located; a located count is stored with both present, value >= 0.
C4_NoneIffNotLocated ==
    \A k \in 1..Len(calls) :
        LET located == calls[k].path \in {"embedded", "linked"}
        IN  /\ IsNone(Stored(k).value) <=> IsNone(Stored(k).confidence)
            /\ IsNone(Stored(k).value) <=> ~located
            /\ located => Get(Stored(k).value) >= 0

CountAt(s, p) ==
    LET q == SkipSpace(s, p + 1)
        e == Max({j \in q..Len(s) : \A m \in q..j : IsDigit(s[m])})
    IN  DecVal(SubSeq(s, q, e))

\* C6: when the anchor fragment's own text contains an =NUMBER after the
\* label (after the last key word), the field is stored as (that number, the
\* anchor's confidence), whatever other fragments are present.
C6_EmbeddedTakesPrecedence ==
    \A k \in 1..Len(calls) :
        ~IsNone(calls[k].anchor) =>
            LET a == Get(calls[k].anchor)
                last == LastKeywordPos(StrLower(a.text), KeyWords(calls[k].item_name))
            IN  \A p \in 1..Len(a.text) :
                    (PatternAt(a.text, p) /\ p - 1 > last) =>
                        Stored(k) = Both(CountAt(a.text, p), a.conf)

\* C7: a count returned by the embedded check starts strictly after the
\* rightmost occurrence, in the anchor's text, of every key word and of
\* every key word's 4-character prefix.
C7_EmbeddedAfterLabel ==
    \A k \in 1..Len(calls) :
        calls[k].path = "embedded" =>
            LET t == Get(calls[k].anchor).text
                start == Get(ReSearch(t)).start
                key_words == KeyWords(calls[k].item_name)
            IN  \A i \in 1..Len(key_words) :
                    /\ start > RFind(StrLower(t), key_words[i])
                    /\ Len(key_words[i]) >= 4 =>
                           start > RFind(StrLower(t), SubSeq(key_words[i], 1, 4))

\* C8: a count fragment chosen by the spatial search has
\* 0 < dx < 400 and dy < 18 relative to the anchor.
C8_LinkedWithinDistance ==
    \A k \in 1..Len(calls) :
        calls[k].path = "linked" =>
            LET dx == Get(calls[k].winner).box[1] - Get(calls[k].anchor).x
                dy == Abs(Get(calls[k].winner).box[2] - Get(calls[k].anchor).y)
            IN  0 < dx /\ dx < 400 /\ dy < 18

\* a label with, as only count fragments, some at dx = 401: nothing is linked
C8_Witness ==
    \E k \in 1..Len(calls) :
        /\ calls[k].path = "not_found"
        /\ \E j \in 1..Len(sorted_results) :
              /\ ~IsNone(ReSearch(sorted_results[j].text))
              /\ sorted_results[j].box[1] - Get(calls[k].anchor).x = 401
              /\ sorted_results[j].box[2] = Get(calls[k].anchor).y

\* the fragment holds every key word of "Paper straws"
IsStrawsLabel(frag) ==
    OtherItemPresent(OtherWords(TxtPaperStraws), StrLower(frag.text))

C10_LinkedConfidence ==
    /\ \A k \in 1..Len(calls) :
          calls[k].path = "linked" =>
              LET w == Get(calls[k].winner)
              IN  Stored(k) = Both(DecVal(Get(ReSearch(w.text)).group1), w.confidence)
    /\ (/\ pc = "done"
        /\ ocr_results = <<Frag(TxtCigaretteButts, 90, 10, 20),
                           Frag(TxtEq12, 85, 30, 20)>>) =>
           category_results["Smoking"][TxtCigaretteButts] = Both(12, 85)

\* The positions of the key words that hit, in schema order: the position of
\* the full word, else of its 4-character prefix.
RECURSIVE MatchedPositionsFrom(_, _, _)
MatchedPositionsFrom(key_words, text_lower, k) ==
    IF k > Len(key_words) THEN <<>>
    ELSE LET word == key_words[k]
             rest == MatchedPositionsFrom(key_words, text_lower, k + 1)
         IN  IF Contains(text_lower, word)
             THEN <<Find(text_lower, word)>> \o rest
             ELSE IF WordHits(word, text_lower)
                  THEN <<Find(text_lower, SubSeq(word, 1, PrefixLen))>> \o rest
                  ELSE rest

StrictlyIncreasing(s) == \A i \in 1..(Len(s) - 1) : s[i] < s[i + 1]

\* the 0.5 order bonus is part of the fragment's quality for these key words
BonusAdded(key_words, text_lower) ==
    MatchQuality(key_words, text_lower) =
        2 * MatchCount(key_words, text_lower) + Len(key_words)

\* C11 as stated: for every field resolved and every fragment, the order
\* bonus is added exactly when the positions of the matched key words, in
\* schema order, are strictly increasing.
C11_BonusIffIncreasing ==
    \A k \in 1..Len(calls) : \A i \in 1..Len(ocr_results) :
        LET key_words == KeyWords(calls[k].item_name)
            text_lower == StrLower(ocr_results[i].text)
        IN  BonusAdded(key_words, text_lower) <=>
                StrictlyIncreasing(MatchedPositionsFrom(key_words, text_lower, 1))

\* C11: for every field resolved and every fragment, the order bonus is added
\* exactly when at least one key word hits and the positions of the matched
\* key words, in schema order, are strictly increasing; "bottles plastic"
\* scores lower than "plastic bottles" for the key words [plastic, bottles],
\* so the in-order fragment is the anchor even when the other sorts first.
C11_BonusIffHitAndIncreasing ==
    /\ \A k \in 1..Len(calls) : \A i \in 1..Len(ocr_results) :
          LET key_words == KeyWords(calls[k].item_name)
              text_lower == StrLower(ocr_results[i].text)
              positions == MatchedPositionsFrom(key_words, text_lower, 1)
          IN  /\ Len(positions) = MatchCount(key_words, text_lower)
              /\ BonusAdded(key_words, text_lower) <=>
                     (positions # <<>> /\ StrictlyIncreasing(positions))
    /\ \A k \in 1..Len(calls) :
          (/\ calls[k].item_name = TxtPlasticBottles
           /\ \E i \in 1..Len(ocr_results) : ocr_results[i].text = TxtBottlesPlastic
           /\ \E i \in 1..Len(ocr_results) : ocr_results[i].text = TxtPlasticBottles)
          => /\ MatchQuality(KeyWords(TxtPlasticBottles), StrLower(TxtBottlesPlastic))
                  < MatchQuality(KeyWords(TxtPlasticBottles), StrLower(TxtPlasticBottles))
             /\ Get(calls[k].anchor).text # TxtBottlesPlastic

C11_Witness ==
    \E k \in 1..Len(calls) :
        /\ calls[k].item_name = TxtPlasticBottles
        /\ sorted_results = <<Frag(TxtBottlesPlastic, 90, 0, 0),
                              Frag(TxtPlasticBottles, 90, 0, 20),
                              Frag(TxtEq5, 85, 20, 20)>>
        /\ Get(calls[k].anchor).text = TxtPlasticBottles
        /\ calls[k].path = "linked"

\* extract_field_counts as one function of its arguments: the loop over
\* all_field_names from field k on
RECURSIVE ResolveFrom(_, _, _, _, _)
ResolveFrom(names, k, sorted, f2c, results) ==
    IF k > Len(names) THEN results
    ELSE LET r == find_item_count(names[k], sorted, names)
             category_name == f2c[names[k]]
         IN  ResolveFrom(names, k + 1, sorted, f2c,
                         DictSet(results, category_name,
                                 DictSet(results[category_name], names[k],
                                         StoredResult(r.count, r.confidence))))

ExtractFieldCounts(ocr, categories) ==
    LET pairs == FieldPairs(categories)
    IN  ResolveFrom([k \in 1..Len(pairs) |-> pairs[k].field], 1, Sorted(ocr),
                    FieldToCategory(pairs),
                    [c \in {categories[k].name : k \in 1..Len(categories)}
                        |-> EmptyDict])

\* the sequences holding the elements of s in another order
Perms(s) ==
    {[i \in 1..Len(s) |-> s[p[i]]] :
        p \in {q \in [1..Len(s) -> 1..Len(s)] :
                  \A i, j \in 1..Len(s) : q[i] = q[j] => i = j}}

\* the schemas declaring the same fields in the same categories in another
\* order: the fields of each category permuted, then the categories
PermutedSchemas(categories) ==
    UNION {Perms(c2) :
              c2 \in {c \in [1..Len(categories) ->
                              UNION {{[name |-> categories[k].name, fields |-> f] :
                                         f \in Perms(categories[k].fields)} :
                                     k \in 1..Len(categories)}] :
                         \A k \in 1..Len(categories) :
                             /\ c[k].name = categories[k].name
                             /\ c[k].fields \in Perms(categories[k].fields)}}

\* what a result holds for a field name, in whichever category it is stored
Resolved(results, field_name) ==
    {results[c][field_name] :
        c \in {d \in DOMAIN results : field_name \in DOMAIN results[d]}}

\* C12: running the extraction again on the same fragments and schema gives
\* the output already returned, and declaring the fields in another order
\* changes neither the (value, confidence) resolved for any field nor the
\* (count, confidence) any single resolution returns.
C12_OrderIndependent ==
    /\ pc = "done" =>
          /\ ExtractFieldCounts(ocr_results, schema) = category_results
          /\ \A sch \in PermutedSchemas(schema) :
                \A k \in 1..Len(all_field_names) :
                    Resolved(ExtractFieldCounts(ocr_results, sch), all_field_names[k])
                        = Resolved(category_results, all_field_names[k])
    /\ \A k \in 1..Len(calls) : \A names \in Perms(all_field_names) :
          LET r == find_item_count(calls[k].item_name, sorted_results, names)
          IN  r.count = calls[k].count /\ r.confidence = calls[k].confidence

\* "Paper cups" is blocked by "Paper straws" whichever of the two is declared
\* first, and "Paper straws" is resolved to 5 in both orders
C12_Witness ==
    /\ pc = "done"
    /\ schema = <<Category("Paper", <<TxtPaperCups, TxtPaperStraws>>)>>
    /\ sorted_results = <<Frag(TxtPaperCups, 90, 0, 0),
                          Frag(TxtPaperStraws, 90, 40, 0),
                          Frag(TxtEq5, 85, 100, 0)>>
    /\ <<Category("Paper", <<TxtPaperStraws, TxtPaperCups>>)>>
           \in PermutedSchemas(schema)
    /\ category_results["Paper"][TxtPaperCups] = OcrFieldResult(None, None)
    /\ category_results["Paper"][TxtPaperStraws] = OcrFieldResult(Some(5), Some(85))

\* C20: the anchor of every resolution is a fragment in which at least half
\* of the field's key words hit (hits / number of key words >= 0.5), and only
\* such fragments pass the label-match threshold.
C20_AnchorHitsHalfTheKeyWords ==
    \A k \in 1..Len(calls) :
        LET key_words == KeyWords(calls[k].item_name)
        IN  /\ ~IsNone(calls[k].anchor) =>
                   2 * MatchCount(key_words, StrLower(Get(calls[k].anchor).text))
                       >= Len(key_words)
            /\ \A i \in 1..Len(ocr_results) :
                   LET text_lower == StrLower(ocr_results[i].text)
                   IN  ReachesFloor(MatchQuality(key_words, text_lower), key_words)
                           => 2 * MatchCount(key_words, text_lower) >= Len(key_words)

(***************************************************************************)
(* process_image (ocr.py 429-451) around process_image_to_form_result      *)
(* (ocr.py 377-410)                                                        *)
(***************************************************************************)
\* OcrCategoryResult(name=..., fields=...)
OcrCategoryResult(name, fields) == [name |-> name, fields |-> fields]

\* OcrFormResult(categories=...)
OcrFormResult(categories) == [categories |-> categories]

\* process_image is called with an image and the schema
InitImage ==
    /\ \E fam \in Families : schema = fam.schema
    /\ ocr_results = <<>>
    /\ pc = "ocr"
    /\ all_field_names = <<>>
    /\ field_to_category = EmptyDict
    /\ sorted_results = <<>>
    /\ category_results = EmptyDict
    /\ fi = 1
    /\ calls = <<>>
    /\ NotExtractIdle

\* ocr.py 396: process_image_ocr returns the fragments it read, possibly none
OcrReturns ==
    /\ pc = "ocr"
    /\ \E fam \in Families :
          /\ fam.schema = schema
          /\ ocr_results' \in SeqsUpTo(fam.pool, MaxFrags)
    /\ pc' = "start"
    /\ UNCHANGED <<schema, all_field_names, field_to_category, sorted_results,
                   category_results, fi, calls>>
    /\ UNCHANGED notExtractVars

\* ocr.py 446-451: decoding or process_image_ocr raises; the handler logs and
\* returns OcrFormResult(categories={})
ProcessImageFails ==
    /\ pc = "ocr"
    /\ raised' = TRUE
    /\ form_result' = Some(OcrFormResult(EmptyDict))
    /\ pc' = "returned"
    /\ UNCHANGED <<ocr_results, schema, all_field_names, field_to_category,
                   sorted_results, category_results, fi, calls>>
    /\ UNCHANGED afterImageVars

\* ocr.py 402-410: one OcrCategoryResult per entry of category_results
BuildFormResult ==
    /\ pc = "done"
    /\ form_result' =
           Some(OcrFormResult([c \in DOMAIN category_results |->
                                   OcrCategoryResult(c, category_results[c])]))
    /\ pc' = "returned"
    /\ UNCHANGED <<ocr_results, schema, all_field_names, field_to_category,
                   sorted_results, category_results, fi, calls, raised>>
    /\ UNCHANGED afterImageVars

NextImage ==
    \/ OcrReturns
    \/ ProcessImageFails
    \/ Begin
    \/ ResolveField
    \/ Return
    \/ BuildFormResult

SpecImage == InitImage /\ [][NextImage]_vars

\* C13: when the OCR step has failed, process_image still returns a result,
\* and in it every field the schema declares is present in its category as
\* (None, None).
C13_FailureGivesAllAbsent ==
    (pc = "returned" /\ raised) =>
        /\ ~IsNone(form_result)
        /\ \A k \in 1..Len(schema) :
              /\ schema[k].name \in DOMAIN Get(form_result).categories
              /\ \A f \in 1..Len(schema[k].fields) :
                    LET fields == Get(form_result).categories[schema[k].name].fields
                    IN  /\ schema[k].fields[f].name \in DOMAIN fields
                        /\ fields[schema[k].fields[f].name] = OcrFieldResult(None, None)

(***************************************************************************)
(* KTBFormField.from_ocr_field (main.py 100-141)                           *)
(*                                                                         *)
(* An OcrFieldResult value (Optional[Any]) is None, an int or a str; the   *)
(* two kinds are told apart by their type field.                           *)
(***************************************************************************)
IntVal(n) == [type |-> "int", n |-> n, s |-> <<>>]
StrVal(s) == [type |-> "str", n |-> 0, s |-> s]

\* confidence < 0.95
ConfidentFloor == 95

DigitChar == <<"0", "1", "2", "3", "4", "5", "6", "7", "8", "9">>

\* str(n) for an int n
RECURSIVE NatStr(_)
NatStr(n) ==
    IF n < 10 THEN <<DigitChar[n + 1]>>
    ELSE NatStr(n \div 10) \o <<DigitChar[(n % 10) + 1]>>

IntStr(n) == IF n < 0 THEN <<"-">> \o NatStr(-n) ELSE NatStr(n)

\* s.strip()
RECURSIVE Strip(_)
Strip(s) ==
    IF s # <<>> /\ IsSpace(s[1]) THEN Strip(Tail(s))
    ELSE IF s # <<>> /\ IsSpace(s[Len(s)]) THEN Strip(SubSeq(s, 1, Len(s) - 1))
    ELSE s

\* int(s) for a str s: surrounding whitespace, an optional sign, then
\* decimal digits only; None stands for ValueError
IntOfStr(s) ==
    LET t == Strip(s)
        signed == t # <<>> /\ t[1] \in {"+", "-"}
        digits == IF signed THEN Tail(t) ELSE t
    IN  IF digits # <<>> /\ \A k \in 1..Len(digits) : IsDigit(digits[k])
        THEN Some(IF signed /\ t[1] = "-" THEN -DecVal(digits) ELSE DecVal(digits))
        ELSE None

\* int(value); None stands for ValueError
IntOf(value) == IF value.type = "int" THEN Some(value.n) ELSE IntOfStr(value.s)

\* str(value)
StrOf(value) == IF value.type = "int" THEN IntStr(value.n) ELSE value.s

\* KTBFormField(name=..., value=..., status=...)
KTBFormField(name, value, status) ==
    [name |-> name, value |-> value, status |-> status]

\* variant: the confidence threshold is tested before the conversion
from_ocr_field_confidence_first(name, ocr_field_arg) ==
    LET value == IF IsNone(ocr_field_arg.value) THEN IntVal(0)
                 ELSE Get(ocr_field_arg.value)
        confidence == IF IsNone(ocr_field_arg.confidence) THEN 0
                      ELSE Get(ocr_field_arg.confidence)
        int_value == IntOf(value)
    IN  IF confidence < ConfidentFloor
        THEN KTBFormField(name, StrOf(value), "needs-validation")
        ELSE IF IsNone(int_value)
             THEN KTBFormField(name, StrOf(value), "error")
             ELSE KTBFormField(name, IntStr(Get(int_value)), "confident")

from_ocr_field(name, ocr_field_arg) ==
    LET value == IF IsNone(ocr_field_arg.value) THEN IntVal(0)
                 ELSE Get(ocr_field_arg.value)
        confidence == IF IsNone(ocr_field_arg.confidence) THEN 0
                      ELSE Get(ocr_field_arg.confidence)
        int_value == IntOf(value)
    IN  IF IsNone(int_value)
        THEN KTBFormField(name, StrOf(value), "error")
        ELSE IF confidence < ConfidentFloor
             THEN KTBFormField(name, IntStr(Get(int_value)), "needs-validation")
             ELSE KTBFormField(name, IntStr(Get(int_value)), "confident")

\* the strings int() accepts, with the integer each one denotes
NumericTexts ==
    {[s |-> <<"1", "2">>, n |-> 12], [s |-> <<"0", "0", "7">>, n |-> 7],
     [s |-> <<" ", "8", " ">>, n |-> 8], [s |-> <<"+", "5">>, n |-> 5],
     [s |-> <<"-", "3">>, n |-> -3]}

\* the strings int() rejects
NonNumericTexts ==
    {<<"a", "b", "c">>, <<"1", "2", ".", "5">>,
     <<"t", "e", "x", "t", "1", "2", "3">>, <<>>, <<"5", " ", "6">>}

FieldValues ==
    {None} \cup {Some(IntVal(n)) : n \in {0, 5, 10, 120, -3}}
           \cup {Some(StrVal(t.s)) : t \in NumericTexts}
           \cup {Some(StrVal(s)) : s \in NonNumericTexts}

FieldConfidences == {None} \cup {Some(c) : c \in {0, 50, 80, 94, 95, 99, 100}}

FieldName == "bottles"

InitField ==
    /\ ocr_field \in {OcrFieldResult(v, c) : v \in FieldValues, c \in FieldConfidences}
    /\ form_field = None
    /\ ExtractIdle
    /\ ImageIdle
    /\ AfterFieldIdle

FromOcrField ==
    /\ IsNone(form_field)
    /\ form_field' = Some(from_ocr_field(FieldName, ocr_field))
    /\ UNCHANGED <<ocr_field, extractVars, imageVars, afterFieldVars>>

NextField == FromOcrField

SpecField == InitField /\ [][NextField]_vars

\* the integer a value converts to, if any, read off the tables above
Converted(v) ==
    IF IsNone(v) THEN Some(0)
    ELSE IF Get(v).type = "int" THEN Some(Get(v).n)
    ELSE IF \E t \in NumericTexts : t.s = Get(v).s
         THEN Some((CHOOSE t \in NumericTexts : t.s = Get(v).s).n)
         ELSE None

MaxUploadFiles == 3

\* len(payload.files) > 100
MaxImages == 100

\* KTBFormCategory.from_ocr_category: a field missing from the OCR category
\* is read as OcrFieldResult(value=None, confidence=1.0)
from_ocr_category(category_schema, ocr_category) ==
    [name |-> category_schema.name,
     fields |-> [k \in 1..Len(category_schema.fields) |->
                    LET name == category_schema.fields[k].name
                    IN  from_ocr_field(name,
                            IF name \in DOMAIN ocr_category.fields
                            THEN ocr_category.fields[name]
                            ELSE OcrFieldResult(None, Some(100)))]]

\* KTBForm.from_ocr_form: the schema's categories the OCR result holds
RECURSIVE from_ocr_form_categories(_, _)
from_ocr_form_categories(categories, ocr_form) ==
    IF categories = <<>> THEN <<>>
    ELSE LET category_schema == categories[1]
             rest == from_ocr_form_categories(Tail(categories), ocr_form)
         IN  IF category_schema.name \in DOMAIN ocr_form.categories
             THEN <<from_ocr_category(category_schema,
                        ocr_form.categories[category_schema.name])>> \o rest
             ELSE rest

from_ocr_form(form_schema, ocr_form) ==
    [categories |-> from_ocr_form_categories(form_schema, ocr_form)]

\* KTBFormResult(uuid=..., image=..., form=...)
KTBFormResult(uuid, image, form) == [uuid |-> uuid, image |-> image, form |-> form]

\* the inner loop of count_issues, over one category's fields from k on
RECURSIVE CountFieldIssues(_, _)
CountFieldIssues(fields, k) ==
    IF k > Len(fields) THEN 0
    ELSE (IF fields[k].status \in {"needs-validation", "error"} THEN 1 ELSE 0)
         + CountFieldIssues(fields, k + 1)

\* the outer loop of count_issues, over the categories from k on
RECURSIVE CountCategoryIssues(_, _)
CountCategoryIssues(categories, k) ==
    IF k > Len(categories) THEN 0
    ELSE CountFieldIssues(categories[k].fields, 1)
         + CountCategoryIssues(categories, k + 1)

count_issues(result) == CountCategoryIssues(result.form.categories, 1)

\* variant: the sort without reverse=True
IssueRank_ascending(counts, i) ==
    Cardinality({j \in 1..Len(counts) :
                    \/ counts[j] < counts[i]
                    \/ counts[j] = counts[i] /\ j < i}) + 1

\* the place the i-th result takes in a stable sort by descending key: after
\* every result of a greater key and every earlier result of the same key
IssueRank(counts, i) ==
    Cardinality({j \in 1..Len(counts) :
                    \/ counts[j] > counts[i]
                    \/ counts[j] = counts[i] /\ j < i}) + 1

\* form_results.sort(key=count_issues, reverse=True)
SortByIssues(s) ==
    LET counts == [k \in 1..Len(s) |-> count_issues(s[k])]
        rank == [i \in 1..Len(s) |-> IssueRank(counts, i)]
    IN  [p \in 1..Len(s) |-> s[CHOOSE i \in 1..Len(s) : rank[i] = p]]

\* variant: a payload of exactly 100 files is refused too
TooManyImages_inclusive(files) == Len(files) >= MaxImages

\* len(payload.files) > 100
TooManyImages(files) == Len(files) > MaxImages

\* convert_image_to_base64: the image re-encoded as PNG
ConvertImageToBase64(content) == <<"png", content>>

\* HTTPException(status_code=400, detail=...)
HTTPException(status_code, detail) ==
    [status_code |-> status_code, detail |-> detail, results |-> <<>>]

\* UploadResponse(results=...), sent with status 200
UploadResponse(results) == [status_code |-> 200, detail |-> "", results |-> results]

\* the schema get_schema() returns to the handler
UploadSchema ==
    <<Category("Plastics", <<"bottles", "bags">>), Category("Metal", <<"cans">>)>>

\* what process_image returns for an image: field results read with
\* confidence 0.99, with confidence 0.5, and a text that is no number
ReadSure(n) == OcrFieldResult(Some(IntVal(n)), Some(99))
ReadUnsure(n) == OcrFieldResult(Some(IntVal(n)), Some(50))
ReadText == OcrFieldResult(Some(StrVal(<<"a", "b", "c">>)), Some(99))

OutcomeClean ==
    OcrFormResult(
        ("Plastics" :> OcrCategoryResult("Plastics",
                           ("bottles" :> ReadSure(5)) @@ ("bags" :> ReadSure(3))))
        @@ ("Metal" :> OcrCategoryResult("Metal", ("cans" :> ReadSure(1)))))

OutcomeOneUnsure ==
    OcrFormResult(
        ("Plastics" :> OcrCategoryResult("Plastics",
                           ("bottles" :> ReadUnsure(5)) @@ ("bags" :> ReadSure(3))))
        @@ ("Metal" :> OcrCategoryResult("Metal", ("cans" :> ReadSure(1)))))

OutcomeAllIssues ==
    OcrFormResult(
        ("Plastics" :> OcrCategoryResult("Plastics",
                           ("bottles" :> ReadText) @@ ("bags" :> ReadUnsure(3))))
        @@ ("Metal" :> OcrCategoryResult("Metal",
                           ("cans" :> OcrFieldResult(None, None)))))

\* a category and a field missing from the OCR result
OutcomePartial ==
    OcrFormResult(
        "Plastics" :> OcrCategoryResult("Plastics", ("bottles" :> ReadUnsure(2))))

\* process_image's result when processing raised
OutcomeFailed == OcrFormResult(EmptyDict)

Outcomes ==
    <<OutcomeClean, OutcomeOneUnsure, OutcomeAllIssues, OutcomePartial, OutcomeFailed>>

\* FilePayload: uuid and base64, with what decoding and OCR will make of it
File(uuid, base64_ok, ocr) ==
    [uuid |-> uuid, base64 |-> <<"b64", uuid>>, base64_ok |-> base64_ok, ocr |-> ocr]

\* UploadPayload: files, and metadata as the number of entries of its JSON list
Payload(files, metadata_count) == [files |-> files, metadata_count |-> metadata_count]

\* short file lists with every combination of outcomes; bad = 0 means every
\* base64 string decodes, else the file at index bad does not
ShortFiles ==
    UNION {{[k \in 1..n |-> File(k, k # bad, o[k])] :
               o \in [1..n -> {Outcomes[j] : j \in 1..Len(Outcomes)}], bad \in 0..n} :
           n \in 0..MaxUploadFiles}

\* file lists around the limit, the outcomes following a repeating pattern
LongFiles ==
    {[k \in 1..n |-> File(k, k # bad, Outcomes[((k * step) % Len(Outcomes)) + 1])] :
        n \in {MaxImages, MaxImages + 1}, step \in {1, 2}, bad \in {0, 50}}

Payloads ==
    {Payload(files, m) :
        files \in ShortFiles \cup LongFiles,
        m \in {0, MaxImages - 1, MaxImages, MaxImages + 1} \cup (0..(MaxUploadFiles + 1))}

InitUpload ==
    /\ payload \in {q \in Payloads :
                       q.metadata_count \in {Len(q.files) - 1, Len(q.files),
                                             Len(q.files) + 1}}
    /\ upc = "start"
    /\ ui = 1
    /\ form_results = <<>>
    /\ response = None
    /\ ExtractIdle
    /\ ImageIdle
    /\ FieldIdle
    /\ AfterUploadIdle

\* main.py 418-426: the image count check, then current_schema = get_schema()
UploadBegin ==
    /\ upc = "start"
    /\ IF TooManyImages(payload.files)
       THEN /\ response' = Some(HTTPException(400, "Too many images"))
            /\ upc' = "done"
       ELSE /\ upc' = "loop"
            /\ UNCHANGED response
    /\ UNCHANGED <<payload, ui, form_results, extractVars, imageVars, fieldVars,
                   afterUploadVars>>

\* main.py 430-449: one iteration of the loop over payload.files
UploadFile ==
    /\ upc = "loop"
    /\ ui <= Len(payload.files)
    /\ LET file_data == payload.files[ui]
       IN  IF ~file_data.base64_ok
           THEN /\ response' = Some(HTTPException(400, "Invalid base64 string"))
                /\ upc' = "done"
                /\ UNCHANGED <<ui, form_results>>
           ELSE /\ form_results' =
                       Append(form_results,
                              KTBFormResult(file_data.uuid,
                                            ConvertImageToBase64(file_data.base64),
                                            from_ocr_form(UploadSchema, file_data.ocr)))
                /\ ui' = ui + 1
                /\ UNCHANGED <<upc, response>>
    /\ UNCHANGED <<payload, extractVars, imageVars, fieldVars, afterUploadVars>>

\* main.py 451-454: the sort and the response
UploadReturn ==
    /\ upc = "loop"
    /\ ui > Len(payload.files)
    /\ form_results' = SortByIssues(form_results)
    /\ response' = Some(UploadResponse(form_results'))
    /\ upc' = "done"
    /\ UNCHANGED <<payload, ui, extractVars, imageVars, fieldVars, afterUploadVars>>

NextUpload == UploadBegin \/ UploadFile \/ UploadReturn

SpecUpload == InitUpload /\ [][NextUpload]_vars

\* the handler has answered
Answered == upc = "done" /\ ~IsNone(response)

\* every base64 string of the payload decodes
AllFilesValid == \A k \in 1..Len(payload.files) : payload.files[k].base64_ok

\* the fields of a result with status needs-validation or error
IssueFields(result) ==
    {cf \in UNION {{<<c, f>> : f \in 1..Len(result.form.categories[c].fields)} :
                      c \in 1..Len(result.form.categories)} :
        result.form.categories[cf[1]].fields[cf[2]].status
            \in {"needs-validation", "error"}}

\* C15: a payload of more than 100 files is answered 400 "Too many images"
\* and no file of it is ever processed; a payload of 1 to 100 files that all
\* decode is answered with exactly one result per file, carrying that file's
\* uuid.
C15_LimitAndOneResultPerFile ==
    /\ Len(payload.files) > 100 =>
          /\ ui = 1 /\ form_results = <<>>
          /\ upc = "done" => response = Some(HTTPException(400, "Too many images"))
    /\ (Answered /\ Len(payload.files) \in 1..100 /\ AllFilesValid) =>
          LET results == Get(response).results
          IN  /\ Get(response).status_code = 200
              /\ Len(results) = Len(payload.files)
              /\ \A k \in 1..Len(payload.files) :
                    Cardinality({r \in 1..Len(results) :
                                    results[r].uuid = payload.files[k].uuid}) = 1

C15_Witness ==
    /\ Answered
    /\ Len(payload.files) = 100
    /\ Get(response).status_code = 200
    /\ Len(Get(response).results) = 100

\* C16: the results of a successful upload are in order of non-increasing
\* issue count, the issue count of a result being the number of its fields
\* with status needs-validation or error.
C16_SortedByIssues ==
    (Answered /\ Get(response).status_code = 200) =>
        LET results == Get(response).results
        IN  \A i, j \in 1..Len(results) :
                i < j => Cardinality(IssueFields(results[i]))
                             >= Cardinality(IssueFields(results[j]))

\* three files uploaded with 0, 3 and 1 issues come back as 3, 1, 0
C16_Witness ==
    /\ Answered
    /\ payload.files = <<File(1, TRUE, OutcomeClean), File(2, TRUE, OutcomeAllIssues),
                         File(3, TRUE, OutcomeOneUnsure)>>
    /\ [k \in 1..3 |-> Get(response).results[k].uuid] = <<2, 3, 1>>
    /\ [k \in 1..3 |-> count_issues(Get(response).results[k])] = <<3, 1, 0>>

\* C17: a payload whose number of metadata entries differs from its number of
\* files is answered 400 with a detail saying the metadata count must match
\* the file count.
C17_MetadataCountMismatchRejected ==
    (Answered /\ payload.metadata_count # Len(payload.files)) =>
        /\ Get(response).status_code = 400
        /\ Get(response).detail = "Metadata count must match file count"

(***************************************************************************)
(* GET and PUT /form-schema: get_default_schema, get_schema and            *)
(* save_schema (main.py 253-310).  The body of a `with SCHEMA_LOCK:` block *)
(* is one step; the test SCHEMA_FILE.exists() of get_schema is made before *)
(* the lock is taken and is a step of its own.  json.dumps of the dumped   *)
(* models and json.loads into FormSchemaOutput give back the same          *)
(* categories and updated_at, which are kept here as one record.           *)
(***************************************************************************)
\* number of /form-schema requests made
MaxRequests == 3

\* the content of data/default-schema.json
DefaultSchema ==
    <<Category("Plastic Items", <<"bottles">>), Category("Glass items", <<"jars">>),
      Category("Animal waste", <<>>)>>

\* the schemas clients PUT
PutSchemas ==
    {<<Category("Paper", <<"cups", "plates">>)>>,
     <<Category("Metal", <<"cans">>), Category("Glass", <<"bottles">>)>>,
     <<>>}

\* {"categories": [...], "updated_at": ...}
SchemaData(categories, updated_at) ==
    [categories |-> categories, updated_at |-> updated_at]

\* variant: the default is created whether or not a schema file exists
SchemaMissing_always(file) == TRUE

\* not SCHEMA_FILE.exists()
SchemaMissing(file) == IsNone(file)

ClientAt(c, pc_value) == client[c].pc = pc_value

\* the app starts with no schema file or with one saved by an earlier run
InitSchema ==
    /\ schema_file \in {None, Some(SchemaData(DefaultSchema, 0))}
    /\ clock = 0
    /\ client = [c \in Clients |-> [pc |-> "idle", op |-> "none", arg |-> <<>>,
                                     created_default |-> FALSE]]
    /\ returned = None
    /\ last_put = None
    /\ n_requests = 0
    /\ ExtractIdle
    /\ ImageIdle
    /\ FieldIdle
    /\ UploadIdle
    /\ AfterStoreIdle

\* GET /form-schema arrives: get_form_schema calls get_schema()
StartGet(c) ==
    /\ ClientAt(c, "idle")
    /\ n_requests < MaxRequests
    /\ n_requests' = n_requests + 1
    /\ client' = [client EXCEPT ![c] = [pc |-> "exists", op |-> "GET", arg |-> <<>>,
                                        created_default |-> FALSE]]
    /\ UNCHANGED <<schema_file, clock, returned, last_put>>
    /\ UNCHANGED <<extractVars, imageVars, fieldVars, uploadVars, afterStoreVars>>

\* PUT /form-schema arrives: update_form_schema calls save_schema(schema)
StartPut(c) ==
    /\ ClientAt(c, "idle")
    /\ n_requests < MaxRequests
    /\ n_requests' = n_requests + 1
    /\ \E categories \in PutSchemas :
          client' = [client EXCEPT ![c] = [pc |-> "save", op |-> "PUT",
                                           arg |-> categories,
                                           created_default |-> FALSE]]
    /\ UNCHANGED <<schema_file, clock, returned, last_put>>
    /\ UNCHANGED <<extractVars, imageVars, fieldVars, uploadVars, afterStoreVars>>

\* main.py 281-284: the existence test; without a file the default is loaded
\* and handed to save_schema
GetExists(c) ==
    /\ ClientAt(c, "exists")
    /\ client' = [client EXCEPT ![c] =
                     IF SchemaMissing(schema_file)
                     THEN [@ EXCEPT !.pc = "save", !.arg = DefaultSchema,
                                    !.created_default = TRUE]
                     ELSE [@ EXCEPT !.pc = "read"]]
    /\ UNCHANGED <<schema_file, clock, returned, last_put, n_requests>>
    /\ UNCHANGED <<extractVars, imageVars, fieldVars, uploadVars, afterStoreVars>>

\* main.py 286-288: the file is read under the lock and returned
GetRead(c) ==
    /\ ClientAt(c, "read")
    /\ returned' = Some([client |-> c, op |-> "GET", data |-> schema_file,
                         created_default |-> FALSE])
    /\ client' = [client EXCEPT ![c].pc = "idle"]
    /\ UNCHANGED <<schema_file, clock, last_put, n_requests>>
    /\ UNCHANGED <<extractVars, imageVars, fieldVars, uploadVars, afterStoreVars>>

\* main.py 304-310: under the lock the data is stamped with the current time,
\* written and returned; the clock may or may not have advanced since the
\* last call
SaveWrite(c) ==
    /\ ClientAt(c, "save")
    /\ \E now \in {clock, clock + 1} :
          LET data == SchemaData(client[c].arg, now)
          IN  /\ clock' = now
              /\ schema_file' = Some(data)
              /\ returned' = Some([client |-> c, op |-> client[c].op,
                                   data |-> Some(data),
                                   created_default |-> client[c].created_default])
              /\ last_put' = IF client[c].op = "PUT" THEN Some(data) ELSE last_put
    /\ client' = [client EXCEPT ![c].pc = "idle"]
    /\ UNCHANGED n_requests
    /\ UNCHANGED <<extractVars, imageVars, fieldVars, uploadVars, afterStoreVars>>

\* no request is being served
AllIdle == \A c \in Clients : ClientAt(c, "idle")

\* requests served one after the other
NextSchema ==
    \E c \in Clients :
        \/ AllIdle /\ StartGet(c)
        \/ AllIdle /\ StartPut(c)
        \/ GetExists(c)
        \/ GetRead(c)
        \/ SaveWrite(c)

SpecSchema == InitSchema /\ [][NextSchema]_vars

\* C18: with the requests served one after the other, once a PUT has
\* completed the schema file holds what the most recent PUT returned and a
\* completed GET returns exactly that; a GET that found no schema file
\* returns the default categories and leaves them in the file.
C18_GetReturnsLastPut ==
    /\ ~IsNone(last_put) =>
          /\ schema_file = last_put
          /\ (~IsNone(returned) /\ Get(returned).op = "GET") =>
                 /\ Get(returned).data = last_put
                 /\ ~Get(returned).created_default
    /\ (~IsNone(returned) /\ Get(returned).created_default) =>
          /\ Get(returned).op = "GET"
          /\ Get(Get(returned).data).categories = DefaultSchema
          /\ schema_file = Get(returned).data
    /\ (~IsNone(returned) /\ Get(returned).op = "GET" /\ IsNone(last_put)) =>
          /\ ~IsNone(Get(returned).data)
          /\ Get(Get(returned).data).categories = DefaultSchema

\* two PUTs and then a GET that returns the second one
C18_Witness ==
    /\ n_requests = 3
    /\ ~IsNone(returned) /\ Get(returned).op = "GET"
    /\ ~IsNone(last_put)
    /\ Get(last_put).categories = <<Category("Paper", <<"cups", "plates">>)>>
    /\ Get(last_put).updated_at = 2
    /\ Get(returned).data = last_put

(***************************************************************************)
(* POST /generate-csv: generate_csv (main.py 457-522).  The CSV is kept as *)
(* its header and its rows of cells, before csv.DictWriter joins the cells *)
(* with commas.  Column names and dict keys are strings; cell texts are    *)
(* sequences of characters, so that str(field.value) can be computed.      *)
(***************************************************************************)
\* longest request.metadata
MaxMetadata == 2

\* CsvMetadataField(name=..., value=...)
CsvMetadataField(name, value) == [name |-> name, value |-> value]

\* CsvFormField(name=..., value=...)
CsvFormField(name, value) == [name |-> name, value |-> value]

\* CsvFormCategory(category=..., fields=...)
CsvFormCategory(category, fields) == [category |-> category, fields |-> fields]

TxtBottles == <<"b", "o", "t", "t", "l", "e", "s">>
TxtBags == <<"b", "a", "g", "s">>
TxtJars == <<"j", "a", "r", "s">>
TxtPlastics == <<"P", "l", "a", "s", "t", "i", "c", "s">>
TxtGlass == <<"G", "l", "a", "s", "s">>
TxtMetal == <<"M", "e", "t", "a", "l">>
TxtAnn == <<"A", "n", "n">>
TxtBob == <<"B", "o", "b">>
TxtTahoe == <<"T", "a", "h", "o", "e">>
TxtNote == <<"n", "o", "t", "e">>

MetadataFields ==
    {CsvMetadataField("volunteer", TxtAnn), CsvMetadataField("volunteer", TxtBob),
     CsvMetadataField("location", TxtTahoe), CsvMetadataField("value", TxtNote)}

CleanupData ==
    {<<>>,
     <<CsvFormCategory(TxtMetal, <<>>)>>,
     <<CsvFormCategory(TxtPlastics, <<CsvFormField(TxtBottles, 5),
                                      CsvFormField(TxtBags, 0)>>)>>,
     <<CsvFormCategory(TxtPlastics, <<CsvFormField(TxtBottles, 10)>>),
       CsvFormCategory(TxtGlass, <<CsvFormField(TxtBottles, 2),
                                   CsvFormField(TxtJars, 15)>>)>>,
     <<CsvFormCategory(TxtGlass, <<CsvFormField(TxtJars, 1)>>),
       CsvFormCategory(TxtMetal, <<>>),
       CsvFormCategory(TxtGlass, <<CsvFormField(TxtJars, 3)>>)>>}

\* ["field_name", "value", "category_name"]
CoreColumns == <<"field_name", "value", "category_name">>

\* {field.name: field.value for field in request.metadata}: a later entry of
\* the same name replaces the earlier one
RECURSIVE MetadataValues(_)
MetadataValues(metadata) ==
    IF metadata = <<>> THEN EmptyDict
    ELSE DictSet(MetadataValues(SubSeq(metadata, 1, Len(metadata) - 1)),
                 metadata[Len(metadata)].name, metadata[Len(metadata)].value)

\* variant: the metadata values are spread first and the core keys after them
RowDict_core_last(category, field, metadata_values) ==
    ("field_name" :> field.name) @@ ("value" :> IntStr(field.value))
        @@ ("category_name" :> category.category) @@ metadata_values

\* the row dict: the three core keys, then **metadata_values over them
RowDict(category, field, metadata_values) ==
    metadata_values @@ ("field_name" :> field.name)
        @@ ("value" :> IntStr(field.value))
        @@ ("category_name" :> category.category)

\* DictWriter.writerow: the row's value for each of fieldnames, in order
WriteRow(fieldnames, row) == [k \in 1..Len(fieldnames) |-> row[fieldnames[k]]]

\* the nested loops over request.cleanup_data and category.fields
RECURSIVE WriteRows(_, _, _)
WriteRows(cleanup_data, fieldnames, metadata_values) ==
    IF cleanup_data = <<>> THEN <<>>
    ELSE LET category == cleanup_data[1]
         IN  [k \in 1..Len(category.fields) |->
                 WriteRow(fieldnames,
                          RowDict(category, category.fields[k], metadata_values))]
             \o WriteRows(Tail(cleanup_data), fieldnames, metadata_values)

InitCsv ==
    /\ csv_request \in [metadata : SeqsUpTo(MetadataFields, MaxMetadata),
                        cleanup_data : CleanupData]
    /\ csv_output = None
    /\ ExtractIdle
    /\ ImageIdle
    /\ FieldIdle
    /\ UploadIdle
    /\ StoreIdle
    /\ AfterCsvIdle

GenerateCsv ==
    /\ IsNone(csv_output)
    /\ LET metadata_columns ==
               [k \in 1..Len(csv_request.metadata) |-> csv_request.metadata[k].name]
           metadata_values == MetadataValues(csv_request.metadata)
           fieldnames == CoreColumns \o metadata_columns
       IN  csv_output' =
               Some([header |-> fieldnames,
                     rows |-> WriteRows(csv_request.cleanup_data, fieldnames,
                                        metadata_values)])
    /\ UNCHANGED <<csv_request, extractVars, imageVars, fieldVars, uploadVars,
                   storeVars, afterCsvVars>>

NextCsv == GenerateCsv

SpecCsv == InitCsv /\ [][NextCsv]_vars

\* the number of fields of all the categories of a request
RECURSIVE FieldTotal(_)
FieldTotal(cleanup_data) ==
    IF cleanup_data = <<>> THEN 0
    ELSE Len(cleanup_data[1].fields) + FieldTotal(Tail(cleanup_data))

\* C19: the header is field_name, value, category_name followed by the names
\* of the metadata fields in request order (nothing more when there is no
\* metadata), there is exactly one row per field of the request, and on
\* every row the column of each metadata field holds that field's value.
C19_HeaderRowsAndMetadata ==
    ~IsNone(csv_output) =>
        LET out == Get(csv_output)
            metadata == csv_request.metadata
        IN  /\ out.header = <<"field_name", "value", "category_name">>
                                \o [k \in 1..Len(metadata) |-> metadata[k].name]
            /\ Len(out.rows) = FieldTotal(csv_request.cleanup_data)
            /\ \A r \in 1..Len(out.rows) :
                  /\ Len(out.rows[r]) = 3 + Len(metadata)
                  /\ \A k \in 1..Len(metadata) :
                        out.rows[r][3 + k] = metadata[k].value

(***************************************************************************)
(* Properties of the spatial search and of the anchor                      *)
(***************************************************************************)
\* the k-th call went on to the spatial search
Searched(k) == calls[k].path \in {"linked", "not_found"}

\* the fragments holding =NUMBER that pass the distance test for the anchor
\* of the k-th call, as indices of sorted_results
Candidates(k) ==
    {c \in 1..Len(sorted_results) :
        LET dx == sorted_results[c].box[1] - Get(calls[k].anchor).x
            dy == Abs(sorted_results[c].box[2] - Get(calls[k].anchor).y)
        IN  /\ ~IsNone(ReSearch(sorted_results[c].text))
            /\ dx > 0 /\ dx < 400 /\ dy < 18}

\* fragment b holds at least 0.7 of the key words of field name as substrings
HoldsLabelOf(name, b) ==
    LET words == KeyWords(name)
        found == {i \in 1..Len(words) :
                     Contains(StrLower(sorted_results[b].text), words[i])}
    IN  Len(words) > 0 /\ 10 * Cardinality(found) >= 7 * Len(words)

\* for the k-th call, a fragment holding another schema field's label lies
\* between the anchor and candidate c
BlockedByOther(k, c) ==
    \E o \in 1..Len(all_field_names) : \E b \in 1..Len(sorted_results) :
        /\ all_field_names[o] # calls[k].item_name
        /\ HoldsLabelOf(all_field_names[o], b)
        /\ Get(calls[k].anchor).x + 30 < sorted_results[b].box[1]
        /\ sorted_results[b].box[1] < sorted_results[c].box[1] - 30
        /\ Abs(sorted_results[b].box[2] - Get(calls[k].anchor).y) < 15

\* C21: in every spatial search a candidate is treated as blocked exactly
\* when a fragment holding at least 0.7 of another schema field's key words
\* has its x_min strictly between label.x_min + 30 and candidate.x_min - 30
\* and its y_min less than 15 pixels from the label's; the fragment returned
\* is never such a candidate.
C21_BlockedExactlyWhenOtherLabelBetween ==
    \A k \in 1..Len(calls) :
        Searched(k) =>
            /\ \A c \in Candidates(k) :
                  Blocked(calls[k].item_name, Get(calls[k].anchor).x,
                          Get(calls[k].anchor).y, sorted_results[c].box[1],
                          sorted_results, all_field_names)
                      <=> BlockedByOther(k, c)
            /\ \A c \in Candidates(k) :
                  calls[k].winner = Some(sorted_results[c]) => ~BlockedByOther(k, c)

\* a search whose only candidate is blocked and which therefore finds nothing
C21_Witness ==
    \E k \in 1..Len(calls) :
        /\ Searched(k)
        /\ Candidates(k) # {}
        /\ \A c \in Candidates(k) : BlockedByOther(k, c)
        /\ IsNone(calls[k].winner)

\* the candidates of the k-th call that no other field's label blocks
Unblocked(k) == {c \in Candidates(k) : ~BlockedByOther(k, c)}

\* the number a fragment holds after its first "="
NumberOf(frag) == DecVal(Get(ReSearch(frag.text)).group1)

\* C22: a spatial search with unblocked candidates returns the count and the
\* confidence of one whose dx is the smallest among them, and it returns the
\* not-found value (0, 0.0) only when there is no unblocked candidate.
C22_NearestUnblockedReturned ==
    \A k \in 1..Len(calls) :
        Searched(k) =>
            /\ Unblocked(k) # {} =>
                  \E c \in Unblocked(k) :
                      /\ \A d \in Unblocked(k) :
                            sorted_results[c].box[1] <= sorted_results[d].box[1]
                      /\ calls[k].count = NumberOf(sorted_results[c])
                      /\ calls[k].confidence = sorted_results[c].confidence
            /\ (calls[k].count = 0 /\ calls[k].confidence = 0) => Unblocked(k) = {}

\* the quality of the i-th fragment of the caller's list for the k-th call
QualityOf(k, i) ==
    MatchQuality(KeyWords(calls[k].item_name), StrLower(ocr_results[i].text))

\* the fragments of the caller's list that match the field of the k-th call
\* with the best quality, as indices of ocr_results
BestMatches(k) ==
    {i \in 1..Len(ocr_results) :
        /\ ReachesFloor(QualityOf(k, i), KeyWords(calls[k].item_name))
        /\ \A j \in 1..Len(ocr_results) : QualityOf(k, j) <= QualityOf(k, i)}

\* the anchor of the k-th call is the i-th fragment of the caller's list
AnchorIs(k, i) ==
    LET m == Get(calls[k].anchor)
    IN  /\ m.text = ocr_results[i].text
        /\ m.x = ocr_results[i].box[1]
        /\ m.y = ocr_results[i].box[2]
        /\ m.conf = ocr_results[i].confidence

\* C23 as stated: the anchor is a matching fragment of the highest quality,
\* and of those the one that comes first in the caller's list.
C23_AnchorFirstInInputOrder ==
    \A k \in 1..Len(calls) :
        ~IsNone(calls[k].anchor) =>
            \E i \in BestMatches(k) :
                /\ AnchorIs(k, i)
                /\ \A j \in BestMatches(k) : i <= j

\* fragment i stands before fragment j in (y_min, x_min) order, the order of
\* the caller's list deciding between fragments at the same place
BeforeInReadingOrder(i, j) ==
    LET a == ocr_results[i].box
        b == ocr_results[j].box
    IN  \/ a[2] < b[2]
        \/ a[2] = b[2] /\ a[1] < b[1]
        \/ a[2] = b[2] /\ a[1] = b[1] /\ i <= j

\* C23: the anchor is a matching fragment of the highest quality, and of
\* those the one that comes first in (y_min, x_min) order, whatever the order
\* of the caller's list.
C23_AnchorFirstInReadingOrder ==
    \A k \in 1..Len(calls) :
        LET key_words == KeyWords(calls[k].item_name)
        IN  IF IsNone(calls[k].anchor)
            THEN \A j \in 1..Len(ocr_results) :
                     ~ReachesFloor(QualityOf(k, j), key_words)
            ELSE LET best == Get(calls[k].anchor).match_quality
                 IN  /\ ReachesFloor(best, key_words)
                     /\ \A j \in 1..Len(ocr_results) : QualityOf(k, j) <= best
                     /\ \E i \in 1..Len(ocr_results) :
                           /\ AnchorIs(k, i)
                           /\ QualityOf(k, i) = best
                           /\ \A j \in 1..Len(ocr_results) :
                                 QualityOf(k, j) = best => BeforeInReadingOrder(i, j)

\* two labels of equal quality, the caller listing the lower one first: the
\* upper one is the anchor
C23_Witness ==
    \E k \in 1..Len(calls) :
        /\ ocr_results = <<Frag(TxtPlasticBottles, 90, 0, 20),
                           Frag(TxtPlasticBottlesSp8, 92, 0, 10)>>
        /\ BestMatches(k) = {1, 2}
        /\ AnchorIs(k, 2)

\* the b-th fragment holds the label of a field other than the one of the
\* k-th call, on the line of the anchor, with x strictly between the anchor's
\* and x
OtherLabelBefore(k, b, x) ==
    LET m == Get(calls[k].anchor)
        f == sorted_results[b]
    IN  /\ \E o \in 1..Len(all_field_names) :
              /\ all_field_names[o] # calls[k].item_name
              /\ HoldsLabelOf(all_field_names[o], b)
        /\ Abs(f.box[2] - m.y) < 15
        /\ m.x < f.box[1]
        /\ f.box[1] < x

\* C24 as stated: between the label and a count returned by spatial linking
\* there is no label of another schema field on the label's line.
C24_NoOtherLabelBeforeCount ==
    \A k \in 1..Len(calls) :
        calls[k].path = "linked" =>
            \A b \in 1..Len(sorted_results) :
                ~OtherLabelBefore(k, b, Get(calls[k].winner).box[1])

\* no two fragments of s have the same (y_min, x_min)
DistinctPlaces(s) ==
    \A i, j \in 1..Len(s) :
        (s[i].box[1] = s[j].box[1] /\ s[i].box[2] = s[j].box[2]) => i = j

\* C28: for fragments at pairwise distinct (y_min, x_min), supplying them in
\* any other order gives the same result for every field, and no step of
\* the extraction changes the caller's list.
C28_FragmentOrderIndependent ==
    /\ [](pc = "done" /\ DistinctPlaces(ocr_results) =>
            \A p \in Perms(ocr_results) :
                ExtractFieldCounts(p, schema) = category_results)
    /\ [][ocr_results' = ocr_results]_vars

\* the count is supplied before its label, and is linked to it all the same
C28_Witness ==
    /\ pc = "done"
    /\ ocr_results = <<Frag(TxtEq5, 85, 100, 0), Frag(TxtPaperCups, 90, 0, 0)>>
    /\ sorted_results = <<Frag(TxtPaperCups, 90, 0, 0), Frag(TxtEq5, 85, 100, 0)>>
    /\ category_results["Paper"][TxtPaperCups] = OcrFieldResult(Some(5), Some(85))

(***************************************************************************)
(* Properties of the rows of generate_csv                                  *)
(***************************************************************************)

\* the fields of a request in the order of their rows, each with its category
RECURSIVE FieldsInRowOrder(_)
FieldsInRowOrder(cleanup_data) ==
    IF cleanup_data = <<>> THEN <<>>
    ELSE [k \in 1..Len(cleanup_data[1].fields) |->
             [category |-> cleanup_data[1].category,
              field |-> cleanup_data[1].fields[k]]]
         \o FieldsInRowOrder(Tail(cleanup_data))

\* C29: on every data row the columns field_name, value and category_name
\* hold the name, the value and the category of the field of that row,
\* whatever the metadata fields are called.
C29_CoreColumnsHoldTheField ==
    ~IsNone(csv_output) =>
        LET out == Get(csv_output)
            fields == FieldsInRowOrder(csv_request.cleanup_data)
        IN  /\ Len(out.rows) = Len(fields)
            /\ \A r \in 1..Len(out.rows) :
                  /\ out.rows[r][1] = fields[r].field.name
                  /\ out.rows[r][2] = IntStr(fields[r].field.value)
                  /\ out.rows[r][3] = fields[r].category

(***************************************************************************)
(* Properties of the forms of upload_images                                *)
(***************************************************************************)

\* the form has the categories of the schema in schema order, each with the
\* fields of the schema in schema order
FollowsSchema(form, form_schema) ==
    /\ Len(form.categories) = Len(form_schema)
    /\ \A c \in 1..Len(form_schema) :
          /\ form.categories[c].name = form_schema[c].name
          /\ Len(form.categories[c].fields) = Len(form_schema[c].fields)
          /\ \A f \in 1..Len(form_schema[c].fields) :
                form.categories[c].fields[f].name = form_schema[c].fields[f].name

\* C26: every form of a successful upload has one category per schema
\* category and one field per schema field, in schema order, whatever the OCR
\* processing of its image gave.
C26_FormsFollowSchema ==
    (Answered /\ Get(response).status_code = 200) =>
        \A r \in 1..Len(Get(response).results) :
            FollowsSchema(Get(response).results[r].form, UploadSchema)

(***************************************************************************)
(* extract_field_counts followed by KTBForm.from_ocr_form                  *)
(***************************************************************************)

\* no resolution of the field found a count: no fragment matched its label,
\* or the search from the anchor found no number
NotLocated(field_name) ==
    \A k \in 1..Len(calls) :
        calls[k].item_name = field_name => calls[k].path \in {"no_match", "not_found"}

\* the result of the extraction as from_ocr_form reads it: the counts the
\* extraction stores are Python ints
AsOcrForm(ocr_form) ==
    OcrFormResult(
        [c \in DOMAIN ocr_form.categories |->
            OcrCategoryResult(
                ocr_form.categories[c].name,
                [n \in DOMAIN ocr_form.categories[c].fields |->
                    LET r == ocr_form.categories[c].fields[n]
                    IN  OcrFieldResult(IF IsNone(r.value) THEN None
                                       ELSE Some(IntVal(Get(r.value))),
                                       r.confidence)])])

\* C25: when the result of the extraction is converted by from_ocr_form,
\* every schema field for which no count was located is reported with value
\* "0" and status needs-validation in its category.
C25_NotLocatedNeedsValidation ==
    (pc = "returned" /\ ~raised) =>
        LET form == from_ocr_form(schema, AsOcrForm(Get(form_result)))
        IN  \A c \in 1..Len(schema) : \A f \in 1..Len(schema[c].fields) :
                NotLocated(schema[c].fields[f].name) =>
                    \E fc \in 1..Len(form.categories) :
                        /\ form.categories[fc].name = schema[c].name
                        /\ form.categories[fc].fields[f] =
                               KTBFormField(schema[c].fields[f].name, <<"0">>,
                                            "needs-validation")

(***************************************************************************)
(* get_schema and save_schema called from several threads at once: the     *)
(* existence test of get_schema (main.py 281) is made outside SCHEMA_LOCK, *)
(* the read (main.py 286-288) and the write (main.py 304-310) under it.    *)
(***************************************************************************)
\* a request may arrive while another is being served
NextSchemaConcurrent ==
    \E c \in Clients :
        \/ StartGet(c)
        \/ StartPut(c)
        \/ GetExists(c)
        \/ GetRead(c)
        \/ SaveWrite(c)

SpecSchemaConcurrent == InitSchema /\ [][NextSchemaConcurrent]_vars

\* C27: however the calls interleave, once a save_schema of a client has
\* completed the schema file holds what the most recent such call wrote, never
\* the default written over it, and a get_schema that returns gives that
\* schema.
C27_DefaultNeverOverwritesSaved ==
    ~IsNone(last_put) =>
        /\ schema_file = last_put
        /\ (~IsNone(returned) /\ Get(returned).op = "GET") =>
               Get(returned).data = last_put

(***************************************************************************)
(* DataCardOCR.process_image_ocr (ocr.py 91-154): the image is saved to a  *)
(* temporary file, PaddleOCR is run on the file and its results are        *)
(* collected.  PaddleOCR itself is not modelled: predict_iter is a         *)
(* sequence of result objects chosen at the start, any of which may be an  *)
(* exception raised while the iterator is advanced.                        *)
(***************************************************************************)
\* most results predict_iter yields for one image
MaxResults == 2

\* a result object: which of the attributes tested at ocr.py 118-127 gives its
\* data, and the value of the data's 'res' key if it has one
Res(kind, res_data) == [kind |-> kind, res |-> res_data]

\* the 'res' value of a result: rec_texts, rec_scores and rec_boxes
ResData(texts, scores, boxes) ==
    [rec_texts |-> texts, rec_scores |-> scores, rec_boxes |-> boxes]

ResDatas ==
    {ResData(<<TxtPaperCups, TxtEq5>>, <<90, 85>>,
             <<<<0, 0, 100, 12>>, <<100, 0, 120, 12>>>>),
     ResData(<<TxtCans, TxtEq5>>, <<90>>, <<<<0, 0, 100, 12>>, <<20, 0, 40, 12>>>>)}

\* what advancing the iterator can give: a result object of one of the five
\* shapes, or an exception of the OCR engine
Results ==
    {Res(kind, res_data) :
        kind \in {"json_dict", "json_callable", "to_dict"},
        res_data \in {None} \cup {Some(d) : d \in ResDatas}}
    \cup {Res("dict", res_data) : res_data \in {None} \cup {Some(d) : d \in ResDatas}}
    \cup {Res("bare", None), Res("raises", None)}

\* ocr.py 136-141: zip(texts, scores, boxes) stops at the shortest list
ZipEntries(res_data) ==
    LET n == Min({Len(res_data.rec_texts), Len(res_data.rec_scores),
                  Len(res_data.rec_boxes)})
    IN  [i \in 1..n |-> [text |-> res_data.rec_texts[i],
                         confidence |-> res_data.rec_scores[i],
                         box |-> res_data.rec_boxes[i]]]

\* ocr.py 153-154: Path(tmp_path).unlink(missing_ok=True)
Unlink(file) == None

\* the finally clause of the try statement (ocr.py 152-154)
Finally(file) == Unlink(file)

\* process_image_ocr is called with an image
InitOcr ==
    /\ ocr_image \in [saves_as_jpeg : BOOLEAN]
    /\ result_iter \in SeqsUpTo(Results, MaxResults)
    /\ tmp_file = None
    /\ opc = "create"
    /\ read_results = <<>>
    /\ ocr_data = None
    /\ ExtractIdle
    /\ ImageIdle
    /\ FieldIdle
    /\ UploadIdle
    /\ StoreIdle
    /\ CsvIdle

\* ocr.py 105-106: NamedTemporaryFile(suffix='.jpg', delete=False) creates the
\* file
CreateTempFile ==
    /\ opc = "create"
    /\ tmp_file' = Some("empty")
    /\ opc' = "save"
    /\ UNCHANGED <<ocr_image, result_iter, read_results, ocr_data>>
    /\ UNCHANGED <<extractVars, imageVars, fieldVars, uploadVars, storeVars, csvVars>>

\* ocr.py 107-111: image.save inside the with block, before the try statement
\* is entered; when it raises the with block closes the file (delete=False)
\* and the exception leaves the method
SaveImage ==
    /\ opc = "save"
    /\ IF ocr_image.saves_as_jpeg
       THEN /\ tmp_file' = Some("jpeg")
            /\ opc' = "iterate"
       ELSE /\ opc' = "raised"
            /\ UNCHANGED tmp_file
    /\ UNCHANGED <<ocr_image, result_iter, read_results, ocr_data>>
    /\ UNCHANGED <<extractVars, imageVars, fieldVars, uploadVars, storeVars, csvVars>>

\* ocr.py 116-141: one iteration of `for res in result_iter`; an exception
\* raised in it passes through the finally clause
NextResult ==
    /\ opc = "iterate"
    /\ result_iter # <<>>
    /\ LET res == Head(result_iter)
       IN  IF \/ res.kind = "raises"
              \/ res.kind = "dict" /\ ~IsNone(res.res)
           THEN \* predict_iter raises, or the 'res' value built from
                \* __dict__ is a str and has no get
                /\ tmp_file' = Finally(tmp_file)
                /\ opc' = "raised"
                /\ UNCHANGED <<result_iter, read_results>>
           ELSE /\ result_iter' = Tail(result_iter)
                /\ read_results' =
                       IF res.kind = "bare" \/ IsNone(res.res) THEN read_results
                       ELSE read_results \o ZipEntries(Get(res.res))
                /\ UNCHANGED <<tmp_file, opc>>
    /\ UNCHANGED <<ocr_image, ocr_data>>
    /\ UNCHANGED <<extractVars, imageVars, fieldVars, uploadVars, storeVars, csvVars>>

\* ocr.py 143-154: the iterator is exhausted; the dict is returned through the
\* finally clause
ReturnOcrData ==
    /\ opc = "iterate"
    /\ result_iter = <<>>
    /\ ocr_data' = Some([ocr_results |-> read_results,
                         text_lines |-> [i \in 1..Len(read_results) |->
                                            read_results[i].text]])
    /\ tmp_file' = Finally(tmp_file)
    /\ opc' = "returned"
    /\ UNCHANGED <<ocr_image, result_iter, read_results>>
    /\ UNCHANGED <<extractVars, imageVars, fieldVars, uploadVars, storeVars, csvVars>>

NextOcr == CreateTempFile \/ SaveImage \/ NextResult \/ ReturnOcrData

SpecOcr == InitOcr /\ [][NextOcr]_vars

\* C30: when process_image_ocr has ended, by returning or by raising after
\* the temporary file was created, the temporary file does not exist.
C30_TempFileGone ==
    opc \in {"returned", "raised"} => IsNone(tmp_file)

====
